---- MODULE Spec2Model ----
(***************************************************************************)
(* Model of the price-checker orchestrator (src/src/checker.py), its       *)
(* SQLite store (src/src/database.py) and its notifier                     *)
(* (src/src/notifier.py).                                                  *)
(*                                                                         *)
(* Two cadences run against one store: check_all_products (availability)   *)
(* and check_all_prices (price).  Each is a coroutine run by its own       *)
(* scheduler thread; its position and locals are the records `avail` and   *)
(* `price`.  Every database method is one transaction, hence one step.     *)
(***************************************************************************)
EXTENDS Integers, Sequences, FiniteSets, TLC

VARIABLES
    products,   \* table products: id -> row
    nextId,     \* AUTOINCREMENT counter of table products
    history,    \* table check_history, in insertion order
    clock,      \* datetime.now(), advanced by each status write
    events,     \* requests handed to the Pushover notifier, in order
    avail,      \* check_all_products: position and locals
    price,      \* check_all_prices: position and locals
    call,       \* a single check_product call: its argument, position and locals
    find,       \* a _deep_find search: the input, the pending nodes, the result
    sched,      \* the settings table and the two jobs of the scheduler
    log         \* MemoryLogHandler and the threads that call it

vars == <<products, nextId, history, clock, events, avail, price, call, find,
          sched, log>>

-----------------------------------------------------------------------------
(* Bounds of the model *)

MaxChecks == 2
MaxProductId == 2
\* the largest limit get_product_history is asked for
MaxLimit == 3
\* the deepest nesting and the longest list or dict _deep_find is given
MaxNesting == 8
MaxItems == 6
\* the most variants a product group has
MaxVariants == 2
\* the largest interval, in minutes, that is configured or entered
MaxInterval == 3
\* the maxlen MemoryLogHandler is constructed with
maxlen == 2
\* the number of emit calls that are made
MaxEmits == 3

-----------------------------------------------------------------------------
(* Values *)

\* SQL NULL / Python None of a text column
NULL == "NULL"
\* An optional number or flag is <<>> (None) or <<v>>
NoPrice == <<>>
Some(v) == <<v>>

SentinelName == "Unknown Product"
UserNames == {"My Router"}
ExtractedNames == {"Widget", "Gadget", SentinelName}
Prices == {1, 2}

\* A URL is the sequence of its parts; a domain pattern matches a part.
UiUrl == <<"https:", "store.ui.com", "p1">>
AmazonUrl == <<"https:", "amazon.com", "dp1">>
OtherUrl == <<"https:", "example.com", "x">>
\* the URLs the web form is given
Urls == {UiUrl}

\* config.products
ConfigProducts == <<[url |-> UiUrl, name |-> NULL]>>

-----------------------------------------------------------------------------
(* Scrapers and dispatcher *)

UIStoreCanHandle(url) == \E i \in 1..Len(url) : url[i] = "store.ui.com"

AmazonDomains ==
    {"amazon.com", "amazon.co.uk", "amazon.ca", "amazon.de", "amazon.fr",
     "amazon.it", "amazon.es", "amazon.co.jp", "amazon.com.au"}

AmazonCanHandle(url) == \E i \in 1..Len(url) : url[i] \in AmazonDomains

Scrapers == <<"ui_store", "amazon">>

CanHandle(scraper, url) ==
    IF scraper = "ui_store" THEN UIStoreCanHandle(url) ELSE AmazonCanHandle(url)

\* variant: the last registered scraper that can handle the URL
GetScraper_Last(url) ==
    LET hits == {i \in 1..Len(Scrapers) : CanHandle(Scrapers[i], url)}
    IN  IF hits = {} THEN NULL
        ELSE Scrapers[CHOOSE i \in hits : \A j \in hits : i >= j]

\* _get_scraper: the first registered scraper that can handle the URL
GetScraper(url) ==
    LET hits == {i \in 1..Len(Scrapers) : CanHandle(Scrapers[i], url)}
    IN  IF hits = {} THEN NULL
        ELSE Scrapers[CHOOSE i \in hits : \A j \in hits : i <= j]

\* ProductInfo records a scraper can return for a URL
ProductInfos(url) ==
    [name : ExtractedNames,
     price : {NoPrice} \cup {Some(p) : p \in Prices},
     available : BOOLEAN,
     url : {url}]

NoInfo == [name |-> NULL]

\* variant: a record comes back whether a scraper handles the URL or not
CheckProduct_Any(url) == {NoInfo} \cup ProductInfos(url)

\* check_product: None when no scraper handles the URL or the scrape raises,
\* else the scraped ProductInfo
CheckProduct(url) ==
    IF GetScraper(url) = NULL THEN {NoInfo}
    ELSE {NoInfo} \cup ProductInfos(url)

-----------------------------------------------------------------------------
(* Pages and the scrapers' parsing steps *)

\* a URL both domain patterns match, e.g. https://store.ui.com/?ref=amazon.com
BothUrl == <<"https:", "store.ui.com", "amazon.com">>
\* the URLs a single check_product call is given
CallUrls == {UiUrl, AmazonUrl, OtherUrl, BothUrl}

\* the text of a price in a page: none, not a number, or a number
PriceTexts == {"", "abc", "1"}
\* ... and of the prices a parse is tried on
ParsedPriceTexts == PriceTexts \cup {"2", "-1"}

\* float(text) inside try/except ValueError: None unless the text is a number
\* (no text is the missing key, for which float is not called)
ParseFloat(text) ==
    IF text = "1" THEN Some(1)
    ELSE IF text = "2" THEN Some(2)
    ELSE IF text = "-1" THEN Some(-1)
    ELSE NoPrice

\* re.search(r"[\d,]+\.?\d*", text): the first run of digits, without a sign
FirstNumber(text) == IF text = "-1" THEN "1" ELSE IF text = "abc" THEN "" ELSE text

\* A text is the sequence of its characters.
UpperCase ==
    <<"A", "B", "C", "D", "E", "F", "G", "H", "I", "J", "K", "L", "M", "N", "O", "P",
      "Q", "R", "S", "T", "U", "V", "W", "X", "Y", "Z">>
LowerCase ==
    <<"a", "b", "c", "d", "e", "f", "g", "h", "i", "j", "k", "l", "m", "n", "o", "p",
      "q", "r", "s", "t", "u", "v", "w", "x", "y", "z">>

LowerChar(c) ==
    IF \E i \in 1..Len(UpperCase) : UpperCase[i] = c
    THEN LowerCase[CHOOSE i \in 1..Len(UpperCase) : UpperCase[i] = c]
    ELSE c

\* str.lower
Lower(text) == [i \in 1..Len(text) |-> LowerChar(text[i])]

\* variant: the part is the whole text
Contains_Whole(part, text) == part = text

\* part in text
Contains(part, text) ==
    \E i \in 0..(Len(text) - Len(part)) : SubSeq(text, i + 1, i + Len(part)) = part

InStockText ==
    <<"I", "n", "S", "t", "o", "c", "k">>
InStockUpperText ==
    <<"I", "N", "_", "S", "T", "O", "C", "K">>
InStockSpacedText ==
    <<"I", "n", " ", "S", "t", "o", "c", "k">>
InStoreOnlyText ==
    <<"I", "n", "S", "t", "o", "r", "e", "O", "n", "l", "y">>
LimitedAvailabilityText ==
    <<"L", "i", "m", "i", "t", "e", "d", "A", "v", "a", "i", "l", "a", "b",
      "i", "l", "i", "t", "y">>
OnlineOnlyText ==
    <<"O", "n", "l", "i", "n", "e", "O", "n", "l", "y">>
PreSaleText ==
    <<"P", "r", "e", "S", "a", "l", "e">>
OutOfStockText ==
    <<"O", "u", "t", "O", "f", "S", "t", "o", "c", "k">>
SoldOutText ==
    <<"S", "o", "l", "d", "O", "u", "t">>
DiscontinuedText ==
    <<"D", "i", "s", "c", "o", "n", "t", "i", "n", "u", "e", "d">>
BackOrderText ==
    <<"B", "a", "c", "k", "O", "r", "d", "e", "r">>
PreOrderText ==
    <<"P", "r", "e", "O", "r", "d", "e", "r">>
InStocText ==
    <<"I", "n", "S", "t", "o", "c">>
SchemaOrgText ==
    <<"h", "t", "t", "p", "s", ":", "/", "/", "s", "c", "h", "e", "m", "a",
      ".", "o", "r", "g", "/">>

\* schema.org availability texts; the empty text is the default of a missing key
Availabilities == {<<>>, InStockText, OutOfStockText}

\* the availability texts a parse is tried on: a word, alone or after the
\* schema.org prefix, alone or followed by a character
AvailabilityTexts ==
    {prefix \o word \o suffix :
        prefix \in {<<>>, SchemaOrgText},
        word \in {<<>>, InStockText, InStockUpperText, InStockSpacedText,
                  InStoreOnlyText, LimitedAvailabilityText, OnlineOnlyText,
                  PreSaleText, OutOfStockText, SoldOutText, DiscontinuedText,
                  BackOrderText, PreOrderText, InStocText},
        suffix \in {<<>>, <<"!">>}}

in_stock_values ==
    <<<<"i", "n", "s", "t", "o", "c", "k">>,
      <<"i", "n", "_", "s", "t", "o", "c", "k">>,
      <<"i", "n", "s", "t", "o", "r", "e", "o", "n", "l", "y">>,
      <<"l", "i", "m", "i", "t", "e", "d", "a", "v", "a", "i", "l", "a", "b", "i", "l", "i", "t", "y">>,
      <<"o", "n", "l", "i", "n", "e", "o", "n", "l", "y">>,
      <<"p", "r", "e", "s", "a", "l", "e">>>>

RECURSIVE UIStoreScan(_, _)
\* for value in in_stock_values: if value in availability_lower: return True
UIStoreScan(values, availability_lower) ==
    IF values = <<>> THEN FALSE
    ELSE IF Contains(Head(values), availability_lower) THEN TRUE
    ELSE UIStoreScan(Tail(values), availability_lower)

\* UIStoreScraper._is_available
UIStoreIsAvailable(availability) == UIStoreScan(in_stock_values, Lower(availability))

\* AmazonScraper._is_available: any(v in availability_lower for v in ...)
AmazonIsAvailable(availability) ==
    \E i \in 1..Len(in_stock_values) : Contains(in_stock_values[i], Lower(availability))

\* DellScraper._is_available: any(v in low for v in [...])
DellIsAvailable(availability) ==
    LET low == Lower(availability)
    IN  \E i \in 1..Len(in_stock_values) : Contains(in_stock_values[i], low)

\* self._is_available of a scraper
IsAvailable(scraper, availability) ==
    IF scraper = "ui_store" THEN UIStoreIsAvailable(availability)
    ELSE IF scraper = "amazon" THEN AmazonIsAvailable(availability)
    ELSE DellIsAvailable(availability)

\* the value of the key "offers": absent, a JSON string, or a JSON object
NoOffers ==
    [kind |-> "absent", price |-> "", availability |-> <<>>, priceCurrency |-> ""]
TextOffers ==
    [kind |-> "text", price |-> "", availability |-> <<>>, priceCurrency |-> ""]
OffersValues ==
    {NoOffers, TextOffers}
        \cup [kind : {"object"}, price : PriceTexts, availability : Availabilities,
               priceCurrency : {""}]

\* the offers of a variant of a product group
VariantOffers ==
    {NoOffers}
        \cup [kind : {"object"}, price : {"1", "2"},
               availability : {InStockText, OutOfStockText},
               priceCurrency : {"", "EUR"}]

\* the value of the key "hasVariant": up to MaxVariants variants
VariantLists ==
    UNION {[1..n -> [offers : VariantOffers]] : n \in 1..MaxVariants}

\* a JSON value inside the ld+json script: a string or an object
TextItem ==
    [kind |-> "text", type |-> NULL, name |-> NULL, offers |-> NoOffers,
     hasVariant |-> <<>>]
ObjectItems ==
    [kind : {"object"}, type : {"Product", "ProductGroup", "WebSite"},
     name : {NULL, "Widget"}, offers : OffersValues, hasVariant : {<<>>}]
NoItem ==
    [kind |-> "none", type |-> NULL, name |-> NULL, offers |-> NoOffers,
     hasVariant |-> <<>>]
\* a JSON object with the given offers and variants
Item(type, name, offers, variants) ==
    [kind |-> "object", type |-> type, name |-> name, offers |-> offers,
     hasVariant |-> variants]

\* the ld+json script of a page: no script, text that is not JSON, a JSON
\* string, a JSON object, or a JSON list
NoDoc == [kind |-> "none", items |-> <<>>]
LdDocs ==
    {NoDoc, [kind |-> "invalid", items |-> <<>>], [kind |-> "text", items |-> <<>>],
     [kind |-> "list", items |-> <<>>]}
        \cup {[kind |-> "object", items |-> <<x>>] : x \in ObjectItems}
        \cup {[kind |-> "list", items |-> <<x, y>>] :
                 x \in {TextItem, Item("WebSite", NULL, NoOffers, <<>>)},
                 y \in ObjectItems \cup {TextItem}}

\* what the HTML fallback looks at: the title element, the price element,
\* the enabled add-to-cart control, the text of the element with id
\* "availability" (none when there is no such element), and whether a text
\* "out of stock", "sold out" or "unavailable" is anywhere in the page
NoHtml ==
    [title |-> FALSE, price |-> "", cart |-> FALSE, avail |-> "", negative |-> FALSE]
HtmlsWith(prices) ==
    {h \in [title : BOOLEAN, price : prices, cart : BOOLEAN,
             avail : {"", "in stock", "out of stock"}, negative : BOOLEAN] :
        h.avail = "out of stock" => h.negative}
Htmls == HtmlsWith(PriceTexts)

\* the __NEXT_DATA__ script of a page: none, text that is not JSON, a JSON
\* list, a JSON object without a product node, or one with a product node
NoNext == [kind |-> "none", name |-> NULL, price |-> "", availability |-> <<>>]
NextDatas ==
    {NoNext} \cup [kind : {"invalid", "list", "empty"}, name : {NULL}, price : {""},
                   availability : {<<>>}]
        \cup [kind : {"product"}, name : {NULL, "Gadget"}, price : ParsedPriceTexts,
               availability : Availabilities]

\* the inline scripts of a page: none of interest, a window.__STATE__
\* assignment with a product node, or a "name": "PowerEdge..." pair
NoScripts == [kind |-> "none", name |-> NULL, price |-> "", availability |-> <<>>]
InlineScripts ==
    {NoScripts}
        \cup [kind : {"state"}, name : {NULL, "Gadget"}, price : ParsedPriceTexts,
               availability : Availabilities]
        \cup [kind : {"regex"}, name : {"PowerEdge"}, price : ParsedPriceTexts,
               availability : {<<>>}]

\* the response to the GET: an error (timeout, transport error, non-2xx) or a page
FailedPage ==
    [status |-> "error", ld |-> NoDoc, html |-> NoHtml, next |-> NoNext,
     scripts |-> NoScripts]
Pages ==
    {FailedPage}
        \cup [status : {"ok"}, ld : LdDocs, html : Htmls, next : {NoNext},
               scripts : {NoScripts}]

\* the @type values _extract_json_ld accepts
ProductTypes(scraper) ==
    IF scraper = "amazon" THEN {"Product"} ELSE {"Product", "ProductGroup"}

\* a call's outcome: the exception it raised (or none) and the value it returned
Returns(value) == [exc |-> NULL, value |-> value]
RaisesItem(exc) == [exc |-> exc, value |-> NoItem]
RaisesInfo(exc) == [exc |-> exc, value |-> NoInfo]

RECURSIVE ScanItems(_, _)
\* for item in data: item.get("@type") raises AttributeError on a non-object
ScanItems(items, types) ==
    IF items = <<>> THEN Returns(NoItem)
    ELSE IF Head(items).kind # "object" THEN RaisesItem("AttributeError")
    ELSE IF Head(items).type \in types THEN Returns(Head(items))
    ELSE ScanItems(Tail(items), types)

\* _extract_json_ld: only JSONDecodeError and TypeError are caught
ExtractJsonLd(scraper, doc) ==
    IF doc.kind \in {"none", "invalid"} THEN Returns(NoItem)
    ELSE IF doc.kind = "text" THEN RaisesItem("AttributeError")
    ELSE ScanItems(doc.items, ProductTypes(scraper))

\* the default of ProductInfo.currency and of a missing priceCurrency
DefaultCurrency == "USD"

\* the record _parse_json_ld builds from the name and the offers it settled on
InfoFrom(scraper, data, offers, available, url) ==
    [name |-> IF data.name = NULL THEN SentinelName ELSE data.name,
     price |-> ParseFloat(offers.price),
     available |-> available,
     url |-> url,
     currency |-> IF offers.priceCurrency = "" THEN DefaultCurrency
                  ELSE offers.priceCurrency]

\* the variants that are in stock, by their place in the list
InStockVariants(scraper, variants) ==
    {i \in 1..Len(variants) : IsAvailable(scraper, variants[i].offers.availability)}

\* variant: the first variant, in stock or not
ChosenVariant_First(scraper, variants) == variants[1].offers

\* UIStoreScraper._parse_json_ld lines 77-89: the offers of the first variant
\* that is in stock, or else of the first variant
ChosenVariant(scraper, variants) ==
    LET hits == InStockVariants(scraper, variants)
    IN  IF hits = {} THEN variants[1].offers
        ELSE variants[CHOOSE i \in hits : \A j \in hits : i <= j].offers

\* UIStoreScraper._parse_json_ld: without top-level offers the offers of the
\* chosen variant are used; with variants the product is available when any
\* variant is.  v_offers.get raises AttributeError on offers that are a text,
\* in the loop up to the chosen variant and in any(...) for every variant
UIStoreParseJsonLd(data, url) ==
    LET variants == data.hasVariant
        useVariant == data.offers.kind = "absent" /\ variants # <<>>
        hits == InStockVariants("ui_store", variants)
        last == IF hits = {} THEN Len(variants)
                ELSE CHOOSE i \in hits : \A j \in hits : i <= j
        offers == IF useVariant THEN ChosenVariant("ui_store", variants)
                  ELSE data.offers
    IN  IF useVariant /\ \E i \in 1..last : variants[i].offers.kind = "text"
        THEN RaisesInfo("AttributeError")
        ELSE IF offers.kind = "text" THEN RaisesInfo("AttributeError")
        ELSE IF \E i \in 1..Len(variants) : variants[i].offers.kind = "text"
        THEN RaisesInfo("AttributeError")
        ELSE Returns(InfoFrom("ui_store", data, offers,
                              IF variants # <<>> THEN hits # {}
                              ELSE IsAvailable("ui_store", offers.availability),
                              url))

\* _parse_json_ld (no priceSpecification and no list of offers in the
\* modelled pages); AmazonScraper and DellScraper do not look at hasVariant
ParseJsonLd(scraper, data, url) ==
    IF scraper = "ui_store" THEN UIStoreParseJsonLd(data, url)
    ELSE IF data.offers.kind = "text" THEN RaisesInfo("AttributeError")
    ELSE Returns(InfoFrom(scraper, data, data.offers,
                          IsAvailable(scraper, data.offers.availability), url))

\* the record the other tiers build
Info(name, p, available, url) ==
    [name |-> name, price |-> p, available |-> available, url |-> url,
     currency |-> DefaultCurrency]

\* _parse_html lines 176-191 (UI store) and 274-283 (Dell): the control makes
\* the product available, the negative text makes it unavailable again
ControlThenText(html) == IF html.negative THEN FALSE ELSE html.cart

\* AmazonScraper._parse_html lines 126-139: the element with id
\* "availability" decides when there is one, else the add-to-cart button
AmazonHtmlAvailable(html) ==
    IF html.avail # "" THEN html.avail = "in stock" ELSE html.cart

\* _parse_html
ParseHtml(scraper, html, url) ==
    Returns(Info(IF html.title THEN "Widget" ELSE SentinelName,
                 ParseFloat(FirstNumber(html.price)),
                 IF scraper = "amazon" THEN AmazonHtmlAvailable(html)
                 ELSE ControlThenText(html),
                 url))

\* DellScraper._try_next_data: None without the script, with text that is not
\* JSON, without a product node or without a name in it; data.keys() raises
\* AttributeError on a JSON list
TryNextData(next, url) ==
    IF next.kind = "list" THEN RaisesInfo("AttributeError")
    ELSE IF next.kind # "product" \/ next.name = NULL THEN Returns(NoInfo)
    ELSE Returns(Info(next.name, ParseFloat(next.price),
                      IsAvailable("dell", next.availability), url))

\* DellScraper._try_inline_scripts: the product node of a state assignment when
\* it has a name, else the "PowerEdge" pair with the unsigned number after
\* "price", as available
TryInlineScripts(scripts, url) ==
    IF scripts.kind = "state" /\ scripts.name # NULL
    THEN Returns(Info(scripts.name, ParseFloat(scripts.price),
                      IsAvailable("dell", scripts.availability), url))
    ELSE IF scripts.kind = "regex"
    THEN Returns(Info(scripts.name,
                      ParseFloat(IF scripts.price = "-1" THEN "" ELSE scripts.price),
                      TRUE, url))
    ELSE Returns(NoInfo)

-----------------------------------------------------------------------------
(* Database *)

RECURSIVE SortedIds(_)
SortedIds(S) ==
    IF S = {} THEN <<>>
    ELSE LET m == CHOOSE x \in S : \A y \in S : x <= y
         IN  <<m>> \o SortedIds(S \ {m})

\* get_all_products: SELECT * FROM products
GetAllProducts(tbl) ==
    LET ids == SortedIds(DOMAIN tbl)
    IN  [i \in 1..Len(ids) |-> tbl[ids[i]]]

\* datetime.now() when the clock reads n: two readings a second, the first of
\* them on the full second
DateTimeOf(n) == [sec |-> n \div 2, usec |-> n % 2]

\* the text sqlite3 stores for a datetime: isoformat(" "), which leaves the
\* fraction out when the microseconds are zero
IsoFormat(d) == IF d.usec = 0 THEN <<d.sec>> ELSE <<d.sec, d.usec>>

\* datetime.fromisoformat
FromIsoFormat(text) ==
    [sec |-> text[1], usec |-> IF Len(text) = 1 THEN 0 ELSE text[2]]

\* a TIMESTAMP column that is NULL
NoTime == <<>>

RECURSIVE TextLess(_, _)
\* SQLite's comparison of two TEXT values
TextLess(a, b) ==
    IF b = <<>> THEN FALSE
    ELSE IF a = <<>> THEN TRUE
    ELSE IF Head(a) # Head(b) THEN Head(a) < Head(b)
    ELSE TextLess(Tail(a), Tail(b))

UrlTaken(tbl, url) == \E id \in DOMAIN tbl : tbl[id].url = url

NewRow(id, url, name) ==
    [id |-> id, url |-> url, name |-> name, last_status |-> NULL,
     last_price |-> NoPrice, last_checked |-> NoTime,
     check_availability |-> TRUE, check_price |-> TRUE]

\* variant: a row is inserted whether the URL is there or not
AddProductTbl_Insert(db, url, name) ==
    [tbl |-> [id \in DOMAIN db.tbl \cup {db.next} |->
                 IF id = db.next THEN NewRow(id, url, name) ELSE db.tbl[id]],
     next |-> db.next + 1]

\* add_product: the Product it returns
AddProductReturn(db, url, name) ==
    IF UrlTaken(db.tbl, url)
    THEN db.tbl[CHOOSE id \in DOMAIN db.tbl : db.tbl[id].url = url]
    ELSE NewRow(db.next, url, name)

\* add_product: the table and counter after the call
AddProductTbl(db, url, name) ==
    IF UrlTaken(db.tbl, url) THEN db
    ELSE [tbl |-> [id \in DOMAIN db.tbl \cup {db.next} |->
                      IF id = db.next THEN NewRow(id, url, name) ELSE db.tbl[id]],
          next |-> db.next + 1]

\* variant: the name column is never written
UpdateProductStatusTbl_NoName(tbl, id, status, p, name, now) ==
    [i \in DOMAIN tbl |->
        IF i # id THEN tbl[i]
        ELSE [tbl[i] EXCEPT !.last_status = status, !.last_price = p,
                            !.last_checked = IsoFormat(now)]]

\* UPDATE products SET last_status, last_price, last_checked [, name] WHERE id
UpdateProductStatusTbl(tbl, id, status, p, name, now) ==
    [i \in DOMAIN tbl |->
        IF i # id THEN tbl[i]
        ELSE IF name # NULL
             THEN [tbl[i] EXCEPT !.last_status = status, !.last_price = p,
                                 !.last_checked = IsoFormat(now), !.name = name]
             ELSE [tbl[i] EXCEPT !.last_status = status, !.last_price = p,
                                 !.last_checked = IsoFormat(now)]]

HistoryRow(id, status, p, now) ==
    [product_id |-> id, status |-> status, price |-> p,
     checked_at |-> IsoFormat(now)]

\* the statement of update_product_status at which sqlite3 raises, if any
TxnFaults == {"none", "update", "insert"}

\* _get_connection: commit when the body ends normally; when it raises, the
\* connection is closed without commit and the open transaction is discarded
GetConnection(before, work, raised) == IF raised THEN before ELSE work

\* the body of update_product_status on db = [tbl, hist], run up to the fault
UpdateProductStatusDb(db, id, status, p, name, now, fault) ==
    LET s1 == IF fault = "update" THEN db
              ELSE [db EXCEPT !.tbl = UpdateProductStatusTbl(db.tbl, id, status, p,
                                                             name, now)]
        s2 == IF fault # "none" THEN s1
              ELSE [s1 EXCEPT !.hist = Append(s1.hist, HistoryRow(id, status, p, now))]
    IN  GetConnection(db, s2, fault # "none")

\* update_product_status: the clock is read and the transaction runs, up to
\* the fault if there is one; the clock of the model ticks with each commit
UpdateProductStatusTxn(id, status, p, name, fault) ==
    /\ clock < MaxChecks
    /\ clock' = IF fault = "none" THEN clock + 1 ELSE clock
    /\ LET db == UpdateProductStatusDb([tbl |-> products, hist |-> history], id,
                                       status, p, name, DateTimeOf(clock + 1), fault)
       IN  products' = db.tbl /\ history' = db.hist

\* update_product_status: one transaction, product update and history insert
UpdateProductStatus(id, status, p, name) ==
    UpdateProductStatusTxn(id, status, p, name, "none")

RECURSIVE SortByCheckedAtDesc(_)
\* ORDER BY checked_at DESC
SortByCheckedAtDesc(rows) ==
    IF rows = <<>> THEN <<>>
    ELSE LET i == CHOOSE i \in 1..Len(rows) :
                     \A j \in 1..Len(rows) :
                        ~TextLess(rows[i].checked_at, rows[j].checked_at)
         IN  <<rows[i]>> \o SortByCheckedAtDesc(
                 SubSeq(rows, 1, i - 1) \o SubSeq(rows, i + 1, Len(rows)))

\* LIMIT n
Limit(rows, n) == SubSeq(rows, 1, IF n < Len(rows) THEN n ELSE Len(rows))

\* _row_to_history
RowToHistory(row) ==
    [product_id |-> row.product_id, status |-> row.status, price |-> row.price,
     checked_at |-> FromIsoFormat(row.checked_at)]

\* variant: oldest first
GetProductHistory_Asc(hist, id, n) ==
    LET rows == Limit(SelectSeq(hist, LAMBDA r : r.product_id = id), n)
    IN  [i \in 1..Len(rows) |-> RowToHistory(rows[i])]

\* get_product_history
GetProductHistory(hist, id, n) ==
    LET rows == Limit(SortByCheckedAtDesc(
                          SelectSeq(hist, LAMBDA r : r.product_id = id)), n)
    IN  [i \in 1..Len(rows) |-> RowToHistory(rows[i])]

-----------------------------------------------------------------------------
(* Orchestrator *)

Idle == [pc |-> "idle", todo |-> <<>>, info |-> NoInfo]
\* an exception left the coroutine
Raised == [Idle EXCEPT !.pc = "raised"]
Quiet == {"idle", "raised"}

StatusOf(info) == IF info.available THEN "available" ELSE "unavailable"

\* variant: the extracted name is always passed
NameArg_Always(info, product) == info.name

\* name=info.name if not product.name else None
NameArg(info, product) == IF product.name = NULL THEN info.name ELSE NULL

\* variant: level-triggered, every available observation notifies
BecameAvailable_Level(current, previous) == current = "available"

\* current_status == "available" and previous_status != "available"
BecameAvailable(current, previous) ==
    current = "available" /\ previous # "available"

\* variant: an equal price counts as a drop
IsPriceDrop_OrEqual(new, old) == new[1] <= old[1]

\* new_price < old_price
IsPriceDrop(new, old) == new[1] < old[1]

\* the for loop of check_all_products moves to the next product
AvailAdvance(todo) ==
    IF todo = <<>> THEN Idle
    ELSE [pc |-> "fetch", todo |-> todo, info |-> NoInfo]

\* variant: products with no last_price are not passed over
SkipNoPrice_None(todo) == todo

RECURSIVE SkipNoPrice(_)
\* the for loop of check_all_prices: products with no last_price are passed over
SkipNoPrice(todo) ==
    IF todo = <<>> THEN <<>>
    ELSE IF Head(todo).last_price = NoPrice THEN SkipNoPrice(Tail(todo))
    ELSE todo

PriceAdvance(todo) ==
    LET rest == SkipNoPrice(todo)
    IN  IF rest = <<>> THEN Idle
        ELSE [pc |-> "fetch", todo |-> rest, info |-> NoInfo]

RECURSIVE AddAll(_, _)
AddAll(db, cfg) ==
    IF cfg = <<>> THEN db
    ELSE AddAll(AddProductTbl(db, Head(cfg).url, Head(cfg).name), Tail(cfg))

\* check_all_products, lines 55-65: upsert the configured products, list all
AvailStart ==
    /\ avail.pc \in Quiet
    /\ LET db == AddAll([tbl |-> products, next |-> nextId], ConfigProducts)
       IN  /\ db.next <= MaxProductId + 1
           /\ products' = db.tbl
           /\ nextId' = db.next
           /\ avail' = AvailAdvance(GetAllProducts(db.tbl))
    /\ UNCHANGED <<history, clock, events, price, call, find, sched, log>>

\* line 68-71: info = await check_product(...); None skips the product
AvailFetch ==
    /\ avail.pc = "fetch"
    /\ \E info \in CheckProduct(Head(avail.todo).url) :
          avail' = IF info = NoInfo THEN AvailAdvance(Tail(avail.todo))
                   ELSE [avail EXCEPT !.pc = "write", !.info = info]
    /\ UNCHANGED <<products, nextId, history, clock, events, price, call, find, sched, log>>

\* notify_available(info): the request handed to the notifier, and whether
\* Pushover accepted it (the return value)
AvailableEvent(info) ==
    [kind |-> "available", url |-> info.url, name |-> info.name,
     price |-> info.price, sent |-> TRUE]

\* notify_available returned False: no credentials, HTTP status error or
\* request error
FailedEvent(info) == [AvailableEvent(info) EXCEPT !.sent = FALSE]

\* lines 73-90: status write, then notify_available when the item just became
\* available (its result is not used), then the next product
AvailUpdate ==
    /\ avail.pc = "write"
    /\ LET product == Head(avail.todo)
       IN  /\ UpdateProductStatus(product.id, StatusOf(avail.info), avail.info.price,
                                  NameArg(avail.info, product))
           /\ IF BecameAvailable(StatusOf(avail.info), product.last_status)
              THEN events' = Append(events, AvailableEvent(avail.info))
              ELSE events' = events
    /\ avail' = AvailAdvance(Tail(avail.todo))
    /\ UNCHANGED <<nextId, price, call, find, sched, log>>

\* variant: a notification that fails undoes the status write
AvailUpdateNotSent_Reverted ==
    /\ avail.pc = "write"
    /\ clock < MaxChecks
    /\ BecameAvailable(StatusOf(avail.info), Head(avail.todo).last_status)
    /\ events' = Append(events, FailedEvent(avail.info))
    /\ avail' = AvailAdvance(Tail(avail.todo))
    /\ UNCHANGED <<products, history, clock, nextId, price, call, find, sched, log>>

\* lines 73-90 when notify_available returns False: the result is not looked
\* at, the loop goes on
AvailUpdateNotSent ==
    /\ avail.pc = "write"
    /\ LET product == Head(avail.todo)
       IN  /\ UpdateProductStatus(product.id, StatusOf(avail.info), avail.info.price,
                                  NameArg(avail.info, product))
           /\ BecameAvailable(StatusOf(avail.info), product.last_status)
           /\ events' = Append(events, FailedEvent(avail.info))
    /\ avail' = AvailAdvance(Tail(avail.todo))
    /\ UNCHANGED <<nextId, price, call, find, sched, log>>

\* lines 77-82 when update_product_status raises: nothing in check_all_products
\* catches it
AvailUpdateFails ==
    /\ avail.pc = "write"
    /\ \E fault \in TxnFaults \ {"none"} :
          LET product == Head(avail.todo)
          IN  UpdateProductStatusTxn(product.id, StatusOf(avail.info),
                                     avail.info.price,
                                     NameArg(avail.info, product), fault)
    /\ avail' = Raised
    /\ UNCHANGED <<nextId, events, price, call, find, sched, log>>

\* check_all_prices, lines 96-106
PriceStart ==
    /\ price.pc \in Quiet
    /\ price' = PriceAdvance(GetAllProducts(products))
    /\ UNCHANGED <<products, nextId, history, clock, events, avail, call, find, sched, log>>

\* lines 108-111: no info or no price skips the product
PriceFetch ==
    /\ price.pc = "fetch"
    /\ \E info \in CheckProduct(Head(price.todo).url) :
          price' = IF info = NoInfo \/ info.price = NoPrice
                   THEN PriceAdvance(Tail(price.todo))
                   ELSE [price EXCEPT !.pc = "write", !.info = info]
    /\ UNCHANGED <<products, nextId, history, clock, events, avail, call, find, sched, log>>

\* lines 113-133: status write, then the price comparison.  PushoverNotifier
\* has no notify_price_drop: on a drop the call raises AttributeError, which
\* leaves check_all_prices (as would the TypeError of comparing with None)
PriceUpdate ==
    /\ price.pc = "write"
    /\ LET product == Head(price.todo)
       IN  /\ UpdateProductStatus(product.id, StatusOf(price.info), price.info.price,
                                  NameArg(price.info, product))
           /\ price' = IF \/ product.last_price = NoPrice
                          \/ IsPriceDrop(price.info.price, product.last_price)
                       THEN Raised
                       ELSE PriceAdvance(Tail(price.todo))
    /\ UNCHANGED <<nextId, events, avail, call, find, sched, log>>

\* lines 118-123 when update_product_status raises: nothing in check_all_prices
\* catches it
PriceUpdateFails ==
    /\ price.pc = "write"
    /\ \E fault \in TxnFaults \ {"none"} :
          LET product == Head(price.todo)
          IN  UpdateProductStatusTxn(product.id, StatusOf(price.info),
                                     price.info.price,
                                     NameArg(price.info, product), fault)
    /\ price' = Raised
    /\ UNCHANGED <<nextId, events, avail, call, find, sched, log>>

-----------------------------------------------------------------------------
(* One check_product call, step by step *)

\* no call is under way
NoCall ==
    [pc |-> "none", url |-> <<>>, page |-> FailedPage, scraper |-> NULL,
     data |-> NoItem, exc |-> NULL, tier |-> NULL, result |-> NoInfo]

\* a call that has not started: its URL and the page the site will answer with
NewCalls ==
    [pc : {"start"}, url : CallUrls, page : Pages, scraper : {NULL},
     data : {NoItem}, exc : {NULL}, tier : {NULL}, result : {NoInfo}]

\* the scraper classes of the package; DellScraper is not in the list of
\* ProductChecker
ScraperClasses == {"ui_store", "amazon", "dell"}

DellUrl == <<"https:", "dell.com", "pe">>

\* a URL the scraper can handle
UrlOf(scraper) ==
    IF scraper = "ui_store" THEN UiUrl
    ELSE IF scraper = "amazon" THEN AmazonUrl
    ELSE DellUrl

\* a page that was fetched
OkPage(ld, html, next, scripts) ==
    [status |-> "ok", ld |-> ld, html |-> html, next |-> next, scripts |-> scripts]

\* a page with the one JSON-LD object and nothing else of interest
LdPage(item) ==
    OkPage([kind |-> "object", items |-> <<item>>], NoHtml, NoNext, NoScripts)

\* an offers object
Offer(p, availability, currency) ==
    [kind |-> "object", price |-> p, availability |-> availability,
     priceCurrency |-> currency]

\* the HTML of a page with a title, a price and an enabled add-to-cart control
TitledHtml ==
    [title |-> TRUE, price |-> "2", cart |-> TRUE, avail |-> "", negative |-> FALSE]

\* the pages a scrape is tried on: a product with each availability text and
\* with each price text; a product group with each list of variants, without
\* and with offers of its own; each HTML without JSON-LD; and each
\* combination of what the tiers can find
ScrapePages ==
    {LdPage(Item("Product", "Widget", Offer("1", a, ""), <<>>)) :
        a \in AvailabilityTexts}
        \cup {LdPage(Item("Product", "Widget", Offer(p, InStockText, "EUR"), <<>>)) :
                 p \in ParsedPriceTexts}
        \cup {LdPage(Item(type, "Widget", offers, variants)) :
                 type \in {"Product", "ProductGroup"},
                 offers \in {NoOffers, Offer("1", OutOfStockText, "")},
                 variants \in VariantLists}
        \cup {OkPage(NoDoc, html, NoNext, NoScripts) :
                 html \in HtmlsWith(ParsedPriceTexts)}
        \cup {OkPage(ld, html, next, scripts) :
                 ld \in {NoDoc,
                         [kind |-> "object", items |->
                             <<Item("Product", NULL, Offer("1", InStockText, ""), <<>>)>>],
                         [kind |-> "object", items |->
                             <<Item("Product", "Widget", Offer("1", InStockText, ""),
                                    <<>>)>>]},
                 html \in {NoHtml, TitledHtml},
                 next \in NextDatas,
                 scripts \in InlineScripts}

\* scraper.scrape(url) of one of the scraper classes is about to fetch the page
NewScrapes ==
    {[pc |-> "get", url |-> UrlOf(scraper), page |-> page, scraper |-> scraper,
      data |-> NoItem, exc |-> NULL, tier |-> NULL, result |-> NoInfo] :
        scraper \in ScraperClasses, page \in {FailedPage} \cup ScrapePages}

\* variant: the exception of the scrape leaves check_product
CallCaught_Raised(exc) == [call EXCEPT !.pc = "raised", !.exc = exc]

\* check_product line 49-51: an exception of the scrape is logged, None returned
CallCaught(exc) == [call EXCEPT !.pc = "returned", !.exc = exc, !.result = NoInfo]

\* a tier of the scrape returns the record
CallReturns(tier, info) ==
    [call EXCEPT !.pc = "returned", !.tier = tier, !.result = info]

StoreUnchanged ==
    UNCHANGED <<products, nextId, history, clock, events, avail, price, find, sched,
                log>>

\* check_product lines 35-38
CallGetScraper ==
    /\ call.pc = "start"
    /\ LET scraper == GetScraper(call.url)
       IN  call' = IF scraper = NULL
                   THEN [call EXCEPT !.pc = "returned", !.result = NoInfo]
                   ELSE [call EXCEPT !.pc = "get", !.scraper = scraper]
    /\ StoreUnchanged

\* scrape: client.get(...) and response.raise_for_status()
CallGet ==
    /\ call.pc = "get"
    /\ call' = IF call.page.status = "error" THEN CallCaught("HTTPError")
               ELSE [call EXCEPT !.pc = "extract"]
    /\ StoreUnchanged

\* scrape: json_ld = self._extract_json_ld(soup); if json_ld: ...
CallExtractJsonLd ==
    /\ call.pc = "extract"
    /\ LET r == ExtractJsonLd(call.scraper, call.page.ld)
       IN  call' = IF r.exc # NULL THEN CallCaught(r.exc)
                   ELSE IF r.value # NoItem
                   THEN [call EXCEPT !.pc = "parse_json_ld", !.data = r.value]
                   ELSE IF call.scraper = "dell"
                   THEN [call EXCEPT !.pc = "next_data"]
                   ELSE [call EXCEPT !.pc = "parse_html"]
    /\ StoreUnchanged

\* scrape: return self._parse_json_ld(json_ld, url)
CallParseJsonLd ==
    /\ call.pc = "parse_json_ld"
    /\ LET r == ParseJsonLd(call.scraper, call.data, call.url)
       IN  call' = IF r.exc # NULL THEN CallCaught(r.exc)
                   ELSE CallReturns("json_ld", r.value)
    /\ StoreUnchanged

\* DellScraper.scrape: info = self._try_next_data(soup, url); if info: return info
CallTryNextData ==
    /\ call.pc = "next_data"
    /\ LET r == TryNextData(call.page.next, call.url)
       IN  call' = IF r.exc # NULL THEN CallCaught(r.exc)
                   ELSE IF r.value # NoInfo THEN CallReturns("next_data", r.value)
                   ELSE [call EXCEPT !.pc = "inline_scripts"]
    /\ StoreUnchanged

\* DellScraper.scrape: info = self._try_inline_scripts(soup, url); if info: ...
CallTryInlineScripts ==
    /\ call.pc = "inline_scripts"
    /\ LET r == TryInlineScripts(call.page.scripts, call.url)
       IN  call' = IF r.exc # NULL THEN CallCaught(r.exc)
                   ELSE IF r.value # NoInfo
                   THEN CallReturns("inline_scripts", r.value)
                   ELSE [call EXCEPT !.pc = "parse_html"]
    /\ StoreUnchanged

\* scrape: return self._parse_html(soup, url)
CallParseHtml ==
    /\ call.pc = "parse_html"
    /\ LET r == ParseHtml(call.scraper, call.page.html, call.url)
       IN  call' = IF r.exc # NULL THEN CallCaught(r.exc)
                   ELSE CallReturns("html", r.value)
    /\ StoreUnchanged

-----------------------------------------------------------------------------
(* Administrative operations and process restart *)

\* web add_product: the name is the one the form gives, or none
AddProduct ==
    /\ nextId <= MaxProductId
    /\ \E url \in Urls, name \in UserNames \cup {NULL} :
          /\ LET db == AddProductTbl([tbl |-> products, next |-> nextId], url, name)
             IN  products' = db.tbl /\ nextId' = db.next
    /\ UNCHANGED <<history, clock, events, avail, price, call, find, sched, log>>

\* the pages the name lookup of the web form meets: the GET fails, a JSON-LD
\* product, a titled HTML
LookupPages ==
    {FailedPage,
     LdPage(Item("Product", "Widget", Offer("1", InStockText, ""), <<>>)),
     OkPage(NoDoc, TitledHtml, NoNext, NoScripts)}

\* the URLs the web form is given without a name: one a scraper handles, one
\* that none handles
LookupUrls == {UiUrl, OtherUrl}

\* web add_product without a name, lines 33-42: check_product(url) is called
\* for the name
AddLookupStart ==
    /\ call.pc = "none"
    /\ nextId <= MaxProductId
    /\ \E url \in LookupUrls, page \in LookupPages :
          call' = [NoCall EXCEPT !.pc = "start", !.url = url, !.page = page]
    /\ StoreUnchanged

\* web add_product, lines 43-50: the name of the record, if there is one, and
\* database.add_product
AddLooked ==
    /\ call.pc = "returned"
    /\ LET name == IF call.result # NoInfo THEN call.result.name ELSE NULL
           db == AddProductTbl([tbl |-> products, next |-> nextId], call.url, name)
       IN  /\ db.next <= MaxProductId + 1
           /\ products' = db.tbl
           /\ nextId' = db.next
    /\ call' = NoCall
    /\ UNCHANGED <<history, clock, events, avail, price, find, sched, log>>

\* web add_product with a URL no scraper handles: the name lookup finds
\* nothing and the product is added with the form's name, or none
AddProductNoScraper ==
    /\ nextId <= MaxProductId
    /\ \E name \in UserNames \cup {NULL} :
          /\ LET db == AddProductTbl([tbl |-> products, next |-> nextId], OtherUrl,
                                     name)
             IN  products' = db.tbl /\ nextId' = db.next
    /\ UNCHANGED <<history, clock, events, avail, price, call, find, sched, log>>

\* Database.delete_product
DeleteProduct ==
    /\ \E id \in DOMAIN products :
          /\ products' = [i \in DOMAIN products \ {id} |-> products[i]]
          /\ history' = SelectSeq(history, LAMBDA h : h.product_id # id)
    /\ UNCHANGED <<nextId, clock, events, avail, price, call, find, sched, log>>

\* Database.update_product_checks
UpdateProductChecks ==
    /\ \E id \in DOMAIN products, ca, cp \in {<<>>, <<TRUE>>, <<FALSE>>} :
          products' = [products EXCEPT ![id] =
              [@ EXCEPT !.check_availability = IF ca = <<>> THEN @ ELSE ca[1],
                        !.check_price = IF cp = <<>> THEN @ ELSE cp[1]]]
    /\ UNCHANGED <<nextId, history, clock, events, avail, price, call, find, sched, log>>

\* the process is stopped and started again: the store stays, the coroutines go
Restart ==
    /\ avail # Idle \/ price # Idle
    /\ avail' = Idle
    /\ price' = Idle
    /\ UNCHANGED <<products, nextId, history, clock, events, call, find, sched, log>>

-----------------------------------------------------------------------------
(* DellScraper._deep_find *)

\* if _depth > 6: return None
DepthLimit == 6
\* for item in obj[:5]
ListScan == 5

\* A JSON value: a dict (keys says whether it has all required keys, kids are
\* its values in order), a list (kids are its items) or anything else.  The
\* tag tells the dicts that have the required keys apart.
Leaf == [kind |-> "leaf", keys |-> FALSE, tag |-> "", kids |-> <<>>]
DictOf(kids) == [kind |-> "dict", keys |-> FALSE, tag |-> "", kids |-> kids]
ListOf(kids) == [kind |-> "list", keys |-> FALSE, tag |-> "", kids |-> kids]
Match(tag, kids) == [kind |-> "dict", keys |-> TRUE, tag |-> tag, kids |-> kids]
\* None
NotFound == [kind |-> "none", keys |-> FALSE, tag |-> "", kids |-> <<>>]

RECURSIVE Chain(_, _)
\* containers of the kinds ks, each the only child of the one before, around
\* the value bottom
Chain(ks, bottom) ==
    IF ks = <<>> THEN bottom
    ELSE [kind |-> Head(ks), keys |-> FALSE, tag |-> "", kids |->
             <<Chain(Tail(ks), bottom)>>]

\* n values of which the k-th is the value v and the others are leaves
OneAmong(n, k, v) == [i \in 1..n |-> IF i = k THEN v ELSE Leaf]

Nestings(lo, hi) == UNION {[1..n -> {"dict", "list"}] : n \in lo..hi}

\* the values _deep_find is called on
FindInputs ==
    {Leaf, DictOf(<<>>), ListOf(<<>>), Match("a", <<Match("b", <<>>)>>)}
        \cup {Chain(ks, Match("a", <<>>)) : ks \in Nestings(0, MaxNesting)}
        \cup {ListOf(OneAmong(n, k, Match("a", <<>>))) :
                 n \in 1..MaxItems, k \in 1..MaxItems}
        \cup {DictOf(OneAmong(n, k, Match("a", <<>>))) :
                 n \in 1..MaxItems, k \in 1..MaxItems}
        \cup {DictOf(<<Chain(ks, Match("a", <<>>)), Match("b", <<>>)>>) :
                 ks \in Nestings(DepthLimit - 2, DepthLimit)}
        \cup {ListOf(OneAmong(n, n, Match("a", <<>>)) \o <<DictOf(<<Match("b", <<>>)>>)>>) :
                 n \in 1..(MaxItems - 1)}

\* no search
NoFind ==
    [pc |-> "none", input |-> Leaf, stack |-> <<>>, inspected |-> <<>>,
     result |-> NotFound]

\* a call _deep_find(obj, ("name", "price")) that is about to run: the calls
\* still to be made are a stack of values with their _depth and their place in
\* the list they are an item of (0 for a dict's value); inspected lists the
\* calls that looked at their value
NewFinds ==
    {[pc |-> "call", input |-> obj,
      stack |-> <<[node |-> obj, depth |-> 0, pos |-> 0]>>,
      inspected |-> <<>>, result |-> NotFound] : obj \in FindInputs}

\* variant: every item of a list is scanned
Scanned_All(node) == [i \in 1..Len(node.kids) |-> [node |-> node.kids[i], pos |-> i]]

\* obj.values(), or obj[:5] with the place of each item
Scanned(node) ==
    LET n == IF node.kind = "list" /\ Len(node.kids) > ListScan
             THEN ListScan ELSE Len(node.kids)
    IN  [i \in 1..n |-> [node |-> node.kids[i],
                          pos |-> IF node.kind = "list" THEN i ELSE 0]]

FindUnchanged ==
    UNCHANGED <<products, nextId, history, clock, events, avail, price, call, sched,
                log>>

\* the call on top is deeper than the limit: it returns None at once
DeepFindTooDeep ==
    /\ find.pc = "call" /\ find.stack # <<>>
    /\ Head(find.stack).depth > DepthLimit
    /\ find' = [find EXCEPT !.stack = Tail(@)]
    /\ FindUnchanged

\* the call on top is on a dict with all required keys: it returns the dict,
\* and every caller returns it in turn
DeepFindFound ==
    /\ find.pc = "call" /\ find.stack # <<>>
    /\ LET top == Head(find.stack)
       IN  /\ top.depth <= DepthLimit
           /\ top.node.kind = "dict" /\ top.node.keys
           /\ find' = [find EXCEPT !.pc = "done", !.stack = <<>>,
                                   !.inspected = Append(@, [depth |-> top.depth,
                                                            pos |-> top.pos]),
                                   !.result = top.node]
    /\ FindUnchanged

\* the call on top is on another value: the calls on its values or first
\* items come next, in order, one level deeper; a value that is neither dict
\* nor list has none
DeepFindDescend ==
    /\ find.pc = "call" /\ find.stack # <<>>
    /\ LET top == Head(find.stack)
           next == Scanned(top.node)
       IN  /\ top.depth <= DepthLimit
           /\ ~(top.node.kind = "dict" /\ top.node.keys)
           /\ find' = [find EXCEPT
                          !.stack = [i \in 1..Len(next) |->
                                        [node |-> next[i].node,
                                         depth |-> top.depth + 1,
                                         pos |-> next[i].pos]] \o Tail(@),
                          !.inspected = Append(@, [depth |-> top.depth,
                                                   pos |-> top.pos])]
    /\ FindUnchanged

\* no call is left: the outermost call returns None
DeepFindNone ==
    /\ find.pc = "call" /\ find.stack = <<>>
    /\ find' = [find EXCEPT !.pc = "done", !.result = NotFound]
    /\ FindUnchanged

-----------------------------------------------------------------------------
(* Settings and scheduler jobs *)

AVAILABILITY_JOB_ID == "product_check"
PRICE_JOB_ID == "price_check"
JobIds == {AVAILABILITY_JOB_ID, PRICE_JOB_ID}

\* the settings key of a job's interval
SettingKey(job) ==
    IF job = AVAILABILITY_JOB_ID THEN "check_interval_minutes"
    ELSE "price_check_interval_minutes"

\* a text: empty, the decimal form of the integer n, or something else
EmptyText == [kind |-> "empty", n |-> 0]
OtherText == [kind |-> "other", n |-> 0]
\* str(n)
Str(n) == [kind |-> "digits", n |-> n]
\* int(text): the number, or ValueError
IntOf(text) ==
    IF text.kind = "digits" THEN [ok |-> TRUE, n |-> text.n]
    ELSE [ok |-> FALSE, n |-> 0]

\* what the settings form is filled in with
FormTexts == {EmptyText, OtherText} \cup {Str(n) : n \in -1..MaxInterval}

\* get_setting on a key that has no row
NoSetting == [kind |-> "none", n |-> 0]

NoJob == [exists |-> FALSE, paused |-> FALSE, interval |-> 0]

\* the process is not running: the settings table as created, no jobs
NotStarted ==
    [pc |-> "stopped",
     settings |-> [k \in {SettingKey(j) : j \in JobIds} |-> NoSetting],
     jobs |-> [j \in JobIds |-> NoJob],
     flash |-> <<>>]

\* main lines 58-72 and 77-119 for one job: the saved interval or else the
\* configured one; add_job with max(interval, 1); pause_job when it is 0
StartJob(saved, configured) ==
    LET interval == IF saved # NoSetting THEN IntOf(saved).n ELSE configured
    IN  [exists |-> TRUE, paused |-> interval = 0,
         interval |-> IF interval > 1 THEN interval ELSE 1]

\* main: the process starts with check_interval_minutes of the configuration
Start ==
    /\ sched.pc = "stopped"
    /\ \E configured \in 1..MaxInterval :
          sched' = [sched EXCEPT
                       !.pc = "running",
                       !.jobs = [j \in JobIds |->
                                    StartJob(sched.settings[SettingKey(j)],
                                             configured)],
                       !.flash = <<>>]
    /\ UNCHANGED <<products, nextId, history, clock, events, avail, price, call, find,
                   log>>

\* shutdown: the scheduler goes, the settings table stays
Shutdown ==
    /\ sched.pc = "running"
    /\ sched' = [NotStarted EXCEPT !.settings = sched.settings]
    /\ UNCHANGED <<products, nextId, history, clock, events, avail, price, call, find,
                   log>>

\* one half of update_settings on the state s for the job and the text of its
\* form field: a text that is no non-negative integer is flashed as an error
\* and ends the request; else set_setting, then reschedule_job and resume_job
\* or pause_job
SettingsHalf(s, job, raw) ==
    LET parsed == IntOf(raw)
    IN  IF ~parsed.ok \/ parsed.n < 0
        THEN [s EXCEPT !.flash = Append(@, "error")]
        ELSE IF ~s.jobs[job].exists
        THEN [s EXCEPT !.settings[SettingKey(job)] = Str(parsed.n),
                       !.flash = Append(@, "error")]
        ELSE IF parsed.n > 0
        THEN [s EXCEPT !.settings[SettingKey(job)] = Str(parsed.n),
                       !.jobs[job].interval = parsed.n,
                       !.jobs[job].paused = FALSE,
                       !.flash = Append(@, "success")]
        ELSE [s EXCEPT !.settings[SettingKey(job)] = Str(parsed.n),
                       !.jobs[job].paused = TRUE,
                       !.flash = Append(@, "success")]

\* update_settings: the availability half, and the price half unless the
\* availability half ended the request
UpdateSettingsOn(s, raw, raw_price) ==
    LET first == SettingsHalf([s EXCEPT !.flash = <<>>], AVAILABILITY_JOB_ID, raw)
    IN  IF first.flash = <<"error">> THEN first
        ELSE SettingsHalf(first, PRICE_JOB_ID, raw_price)

\* POST /settings
UpdateSettings ==
    /\ sched.pc = "running"
    /\ \E raw, raw_price \in FormTexts :
          sched' = UpdateSettingsOn(sched, raw, raw_price)
    /\ UNCHANGED <<products, nextId, history, clock, events, avail, price, call, find,
                   log>>

-----------------------------------------------------------------------------
(* MemoryLogHandler *)

\* the threads that log and read the log
Threads == {1, 2}

\* a thread that is not inside the handler
Outside == [pc |-> "outside", raises |-> FALSE, since |-> 0, got |-> <<>>]

\* __init__: _seq, _records, _lock (0 when free, else the thread that holds
\* it); calls and emits count the emit calls made and the emit calls finished
NewLog ==
    [seq |-> 0, records |-> <<>>, lock |-> 0, calls |-> 0, emits |-> 0,
     threads |-> [t \in Threads |-> Outside]]

\* deque(maxlen=n).append: a full deque drops its oldest item
DequeAppend(records, r, n) ==
    IF Len(records) < n THEN Append(records, r)
    ELSE Append(Tail(records), r)

\* a thread calls emit(record); record.getMessage() of the record will raise
\* or not (a message whose arguments do not fit its format raises)
EmitCall(t) ==
    /\ log.threads[t].pc = "outside"
    /\ log.calls < MaxEmits
    /\ \E raises \in BOOLEAN :
          log' = [log EXCEPT !.calls = @ + 1,
                             !.threads[t] = [Outside EXCEPT !.pc = "emit_lock",
                                                            !.raises = raises]]
    /\ UNCHANGED <<products, nextId, history, clock, events, avail, price, call, find,
                   sched>>

\* emit: with self._lock
EmitAcquire(t) ==
    /\ log.threads[t].pc = "emit_lock"
    /\ log.lock = 0
    /\ log' = [log EXCEPT !.lock = t, !.threads[t].pc = "emit_seq"]
    /\ UNCHANGED <<products, nextId, history, clock, events, avail, price, call, find,
                   sched>>

\* emit: self._seq += 1
EmitSeq(t) ==
    /\ log.threads[t].pc = "emit_seq"
    /\ log' = [log EXCEPT !.seq = @ + 1, !.threads[t].pc = "emit_append"]
    /\ UNCHANGED <<products, nextId, history, clock, events, avail, price, call, find,
                   sched>>

\* emit: the record is built and appended and the lock released; when
\* getMessage raises nothing is appended, the lock is released on the way out
\* and handleError takes the exception
EmitAppend(t) ==
    /\ log.threads[t].pc = "emit_append"
    /\ log' = [log EXCEPT
                  !.records = IF log.threads[t].raises THEN @
                              ELSE DequeAppend(@, [seq |-> log.seq], maxlen),
                  !.lock = 0,
                  !.emits = @ + 1,
                  !.threads[t] = Outside]
    /\ UNCHANGED <<products, nextId, history, clock, events, avail, price, call, find,
                   sched>>

\* get_since: [r for r in self._records if r["seq"] > seq]
GetSince(records, seq) == SelectSeq(records, LAMBDA r : r.seq > seq)

\* a thread calls get_since(seq)
GetSinceCall(t) ==
    /\ log.threads[t].pc = "outside"
    /\ \E seq \in 0..MaxEmits :
          log' = [log EXCEPT !.threads[t] = [Outside EXCEPT !.pc = "since_lock",
                                                            !.since = seq]]
    /\ UNCHANGED <<products, nextId, history, clock, events, avail, price, call, find,
                   sched>>

\* get_since: the list is built while the lock is held
GetSinceLocked(t) ==
    /\ log.threads[t].pc = "since_lock"
    /\ log.lock = 0
    /\ log' = [log EXCEPT !.threads[t].pc = "since_done",
                          !.threads[t].got = GetSince(log.records,
                                                      log.threads[t].since)]
    /\ UNCHANGED <<products, nextId, history, clock, events, avail, price, call, find,
                   sched>>

\* get_since returns
GetSinceReturn(t) ==
    /\ log.threads[t].pc = "since_done"
    /\ log' = [log EXCEPT !.threads[t] = Outside]
    /\ UNCHANGED <<products, nextId, history, clock, events, avail, price, call, find,
                   sched>>

-----------------------------------------------------------------------------

Init ==
    /\ products = <<>>
    /\ nextId = 1
    /\ history = <<>>
    /\ clock = 0
    /\ events = <<>>
    /\ avail = Idle
    /\ price = Idle
    /\ call = NoCall
    /\ find = NoFind
    /\ sched = NotStarted
    /\ log = NewLog

\* the store as constructed, and one check_product call about to be made
InitCall ==
    /\ products = <<>>
    /\ nextId = 1
    /\ history = <<>>
    /\ clock = 0
    /\ events = <<>>
    /\ avail = Idle
    /\ price = Idle
    /\ call \in NewCalls
    /\ find = NoFind
    /\ sched = NotStarted
    /\ log = NewLog

\* the store as constructed, and one scrape about to fetch its page
InitScrape ==
    /\ products = <<>>
    /\ nextId = 1
    /\ history = <<>>
    /\ clock = 0
    /\ events = <<>>
    /\ avail = Idle
    /\ price = Idle
    /\ call \in NewScrapes
    /\ find = NoFind
    /\ sched = NotStarted
    /\ log = NewLog

\* the store as constructed, and one _deep_find call about to be made
InitFind ==
    /\ products = <<>>
    /\ nextId = 1
    /\ history = <<>>
    /\ clock = 0
    /\ events = <<>>
    /\ avail = Idle
    /\ price = Idle
    /\ call = NoCall
    /\ find \in NewFinds
    /\ sched = NotStarted
    /\ log = NewLog

Next ==
    \/ AvailStart \/ AvailFetch \/ AvailUpdate
    \/ PriceStart \/ PriceFetch \/ PriceUpdate
    \/ AddProduct \/ DeleteProduct \/ Restart

\* the two cadences never overlap
NextSeq ==
    \/ price.pc \in Quiet /\ AvailStart
    \/ AvailFetch \/ AvailUpdate
    \/ avail.pc \in Quiet /\ PriceStart
    \/ PriceFetch \/ PriceUpdate
    \/ AddProduct \/ DeleteProduct \/ Restart

\* ... and the store's update_product_checks is called as well
NextApi == NextSeq \/ UpdateProductChecks

\* the two cadences never overlap and no product is deleted
NextKeep ==
    \/ price.pc \in Quiet /\ AvailStart
    \/ AvailFetch \/ AvailUpdate
    \/ avail.pc \in Quiet /\ PriceStart
    \/ PriceFetch \/ PriceUpdate
    \/ AddProduct \/ Restart

\* ... and the store and the notifier can fail
NextFault == NextKeep \/ AvailUpdateNotSent \/ AvailUpdateFails \/ PriceUpdateFails

\* ... and products that no scraper handles are tracked as well
NextUrls == NextKeep \/ AddProductNoScraper

\* one check_product call
NextCall ==
    \/ CallGetScraper \/ CallGet \/ CallExtractJsonLd
    \/ CallParseJsonLd \/ CallParseHtml

\* the availability cycle runs while products are added through the web form
\* without a name
NextLookup ==
    \/ AvailStart \/ AvailFetch \/ AvailUpdate
    \/ AddLookupStart \/ AddLooked
    \/ CallGetScraper \/ CallGet \/ CallExtractJsonLd
    \/ CallParseJsonLd \/ CallParseHtml

\* one scrape of any of the scraper classes
NextScrape ==
    \/ CallGet \/ CallExtractJsonLd \/ CallParseJsonLd
    \/ CallTryNextData \/ CallTryInlineScripts \/ CallParseHtml

\* one _deep_find call
NextFind == DeepFindTooDeep \/ DeepFindFound \/ DeepFindDescend \/ DeepFindNone

\* threads log and read the log
NextLog ==
    \E t \in Threads :
        \/ EmitCall(t) \/ EmitAcquire(t) \/ EmitSeq(t) \/ EmitAppend(t)
        \/ GetSinceCall(t) \/ GetSinceLocked(t) \/ GetSinceReturn(t)

\* the process is started and stopped and the settings form is posted
NextSettings == Start \/ UpdateSettings \/ Shutdown

Spec == Init /\ [][Next]_vars
SpecSeq == Init /\ [][NextSeq]_vars
SpecApi == Init /\ [][NextApi]_vars
SpecFault == Init /\ [][NextFault]_vars
SpecUrls == Init /\ [][NextUrls]_vars
SpecCall == InitCall /\ [][NextCall]_vars
SpecLookup == Init /\ [][NextLookup]_vars
SpecScrape == InitScrape /\ [][NextScrape]_vars
SpecLog == Init /\ [][NextLog]_vars
\* a call of _deep_find runs as long as it has a step to take
SpecFind == InitFind /\ [][NextFind]_vars /\ WF_vars(NextFind)
SpecSettings == Init /\ [][NextSettings]_vars

-----------------------------------------------------------------------------
(* Vocabulary of the properties *)

\* the product row a cadence read when it listed the products
Cur(c) == Head(c.todo)
\* that product is still in the store
Live(c) == c.todo # <<>> /\ Cur(c).id \in DOMAIN products

\* this step is the status write of check_all_products / check_all_prices
AvailWrote == avail.pc = "write" /\ avail' # avail /\ clock' # clock
PriceWrote == price.pc = "write" /\ price' # price /\ clock' # clock

\* the events' log grew by exactly the one event e
OneEvent(e) == events' = Append(events, e)

HistoryOf(h, id) == SelectSeq(h, LAMBDA r : r.product_id = id)
EventsOf(ev, url) == SelectSeq(ev, LAMBDA e : e.url = url)

PriceDropEvent(product, old, new) ==
    [kind |-> "price_drop", url |-> product.url, name |-> product.name,
     old_price |-> old, new_price |-> new]

-----------------------------------------------------------------------------
(* C1 *)

\* C1: when check_all_products writes the status of a product whose new
\* extraction is available, exactly one availability notification is
\* dispatched if the persisted last_status was empty or "unavailable", and
\* none if it was already "available"; the previous status is the one in the
\* store, whatever restarts happened before.
C1_EdgeTriggered ==
    [][AvailWrote /\ Live(avail) /\ avail.info.available =>
          IF products[Cur(avail).id].last_status # "available"
          THEN OneEvent(AvailableEvent(avail.info))
          ELSE events' = events]_vars

\* C1 witness: a product seen available twice in a row, notified once
C1_Witness ==
    /\ Len(history) = 2
    /\ history[1].status = "available"
    /\ history[2].status = "available"
    /\ history[1].product_id = history[2].product_id
    /\ Len(events) = 1
    /\ events[1].kind = "available"

(* C2 *)

\* C2: in check_all_prices, for a product with persisted last_price old and
\* extracted price new, a price-drop event carrying (old, new) reaches the
\* notifier if and only if new < old.
C2_PriceDropIffLower ==
    [][PriceWrote /\ Live(price) /\ products[Cur(price).id].last_price # NoPrice =>
          LET old == products[Cur(price).id].last_price
              new == price.info.price
          IN  IF new[1] < old[1]
              THEN OneEvent(PriceDropEvent(Cur(price), old, new))
              ELSE events' = events]_vars

(* C3 *)

\* C3: whichever cadence writes, every change of a product's persisted
\* last_status from non-"available" to "available" comes with exactly one
\* availability event, and every strict decrease of its persisted last_price
\* comes with exactly one price-drop event.
C3_NoMissedCrossing ==
    [][\A id \in DOMAIN products \cap DOMAIN products' :
          /\ (/\ products[id].last_status # "available"
              /\ products'[id].last_status = "available")
             => /\ Len(events') = Len(events) + 1
                /\ events'[Len(events')].kind = "available"
          /\ (/\ products[id].last_price # NoPrice
              /\ products'[id].last_price # NoPrice
              /\ products'[id].last_price[1] < products[id].last_price[1])
             => /\ Len(events') = Len(events) + 1
                /\ events'[Len(events')].kind = "price_drop"]_vars

(* C4 *)

\* C4: when check_all_prices extracts a price equal to or greater than the
\* persisted last_price, no event is emitted (notify_price_drop is not even
\* called) and the persisted last_price becomes the new price.
C4_NoDropOverwrites ==
    [][(/\ PriceWrote /\ Live(price)
        /\ products[Cur(price).id].last_price # NoPrice
        /\ price.info.price[1] >= products[Cur(price).id].last_price[1])
       => /\ events' = events
          /\ price'.pc # "raised"
          /\ products'[Cur(price).id].last_price = price.info.price]_vars

\* C4 witness: check_all_prices is about to write a price that is not lower
\* than the persisted one
C4_Witness ==
    /\ price.pc = "write" /\ Live(price) /\ clock < MaxChecks
    /\ products[Cur(price).id].last_price # NoPrice
    /\ price.info.price[1] >= products[Cur(price).id].last_price[1]

(* C5 *)

\* C5: a product whose name was supplied by the user keeps exactly that name
\* through every step, whatever names the extractions report.
C5_UserNameKept ==
    [][\A id \in DOMAIN products \cap DOMAIN products' :
          products[id].name \in UserNames =>
              products'[id].name = products[id].name]_vars

\* C5 witness: a user-named product that has been checked successfully twice
C5_Witness ==
    \E id \in DOMAIN products :
        /\ products[id].name \in UserNames
        /\ Len(HistoryOf(history, id)) = 2

(* C6 *)

\* the persisted name after the write of cadence c is the extracted one
NameIsExtracted(c) ==
    (/\ Live(c)
     /\ products[Cur(c).id].name \notin UserNames \cup {SentinelName}
     /\ c.info.name # SentinelName)
    => products'[Cur(c).id].name = c.info.name

\* C6 as claimed: for a product with no user-supplied name, after each
\* successful check the persisted name is the name extracted by that check
\* (stated for real names: neither the persisted nor the extracted name is
\* the sentinel).
C6_NameWrittenEveryCheck ==
    [][/\ AvailWrote => NameIsExtracted(avail)
       /\ PriceWrote => NameIsExtracted(price)]_vars

\* the write of cadence c stores the extracted name only in an empty name
NameStoredWhenEmpty(c) ==
    Live(c) => products'[Cur(c).id].name =
                  IF Cur(c).name = NULL THEN c.info.name
                  ELSE products[Cur(c).id].name

\* C6 amended: a successful check stores the extracted name when the name of
\* the product was empty when the cadence listed the products, and leaves the
\* persisted name as it is otherwise.
C6_NameWrittenWhenEmpty ==
    [][/\ AvailWrote => NameStoredWhenEmpty(avail)
       /\ PriceWrote => NameStoredWhenEmpty(price)]_vars

\* C6 witness: the first extracted name is stored and a later check of the
\* product extracted a different one
C6_Witness ==
    \E id \in DOMAIN products :
        /\ products[id].name = "Widget"
        /\ Len(HistoryOf(history, id)) = 2
        /\ \E i \in 1..Len(events) : events[i].name = "Gadget"

(* C7 *)

\* C7: the sentinel name "Unknown Product" is never stored as a product's
\* persisted name and no availability event is emitted for it.
C7_SentinelNotStored ==
    /\ \A id \in DOMAIN products : products[id].name # SentinelName
    /\ \A i \in 1..Len(events) : events[i].name # SentinelName

(* C8 *)

\* C8: check_all_products leaves out a product whose check_availability flag
\* is false: it is not at the fetch or the write of such a product, and no
\* step of it changes the product's row, its history or its events.
C8_AvailabilityDisabledSkipped ==
    [][/\ (avail.pc \in {"fetch", "write"} /\ Live(avail))
          => products[Cur(avail).id].check_availability
       /\ avail' # avail =>
             \A id \in DOMAIN products :
                ~products[id].check_availability =>
                   /\ id \in DOMAIN products'
                   /\ products'[id] = products[id]
                   /\ HistoryOf(history', id) = HistoryOf(history, id)
                   /\ EventsOf(events', products[id].url)
                         = EventsOf(events, products[id].url)]_vars

(* C9 *)

\* C9: check_all_prices leaves out a product whose check_price flag is false:
\* it is not at the fetch or the write of such a product, and no step of it
\* changes the product's last_price or its history.
C9_PriceDisabledSkipped ==
    [][/\ (price.pc \in {"fetch", "write"} /\ Live(price))
          => products[Cur(price).id].check_price
       /\ price' # price =>
             \A id \in DOMAIN products :
                ~products[id].check_price =>
                   /\ id \in DOMAIN products'
                   /\ products'[id].last_price = products[id].last_price
                   /\ HistoryOf(history', id) = HistoryOf(history, id)]_vars

(* C10 *)

\* C10: check_all_prices leaves out a product whose persisted last_price is
\* empty: it is not at the fetch or the write of such a product, and no step
\* of it changes the product's row, its history or the events.
C10_NoBaselineSkipped ==
    [][/\ (price.pc \in {"fetch", "write"} /\ Live(price))
          => products[Cur(price).id].last_price # NoPrice
       /\ price' # price =>
             \A id \in DOMAIN products :
                products[id].last_price = NoPrice =>
                   /\ id \in DOMAIN products'
                   /\ products'[id] = products[id]
                   /\ HistoryOf(history', id) = HistoryOf(history, id)
                   /\ events' = events]_vars

\* C10 witness: a product checked for availability that has no price, which
\* the price cadence has passed over
C10_Witness ==
    /\ price.pc = "idle"
    /\ \E id \in DOMAIN products :
          /\ products[id].last_price = NoPrice
          /\ products[id].last_status # NULL

(* C16 *)

\* C16: once a check_product call has resolved its URL, the scraper it holds
\* is the first one in registration order whose domain pattern matches the
\* URL (so the earlier-registered one when both match), and when no pattern
\* matches the call has returned None without any exception.
C16_FirstMatchWins ==
    call.pc \notin {"none", "start"} =>
        LET hits == {i \in 1..Len(Scrapers) : CanHandle(Scrapers[i], call.url)}
        IN  IF hits = {}
            THEN /\ call.scraper = NULL
                 /\ call.pc = "returned"
                 /\ call.result = NoInfo
                 /\ call.exc = NULL
            ELSE \E i \in hits :
                    /\ call.scraper = Scrapers[i]
                    /\ \A j \in hits : i <= j

\* C16 witness: a URL both patterns match was resolved to the UI store scraper
C16_Witness ==
    /\ call.pc = "get"
    /\ call.url = BothUrl
    /\ UIStoreCanHandle(call.url) /\ AmazonCanHandle(call.url)
    /\ call.scraper = "ui_store"

(* C19 *)

\* C19: the parsing steps of a scraper (_extract_json_ld, _parse_json_ld,
\* _parse_html) never raise, whatever the shape of the embedded JSON-LD: the
\* only exception a scrape can end with is the HTTP error of the GET.
C19_ParsingNeverRaises == call.exc \in {NULL, "HTTPError"}

(* C20 *)

\* C20: every record a scrape returns with the sentinel name "Unknown
\* Product" has available = false and no price.
C20_SentinelMeansEmpty ==
    (/\ call.pc = "returned"
     /\ call.result # NoInfo
     /\ call.result.name = SentinelName)
    => /\ ~call.result.available
       /\ call.result.price = NoPrice

(* C11 *)

\* C11: per product and cycle the order is extraction, status write,
\* notification.  Every history row that appears is written by a cadence that
\* is past its extraction and holds the extracted record, with that record's
\* status and price; every notification that is dispatched, whether Pushover
\* accepts it or not, goes with the committed write of the same product
\* (product row and history row), which stays in place.
C11_WriteBeforeNotify ==
    [][/\ Len(history') > Len(history) =>
             \E c \in {avail, price} :
                /\ c.pc = "write"
                /\ c.info \in ProductInfos(Cur(c).url)
                /\ history' = Append(history,
                                     HistoryRow(Cur(c).id, StatusOf(c.info),
                                                c.info.price, DateTimeOf(clock')))
       /\ events' # events =>
             LET e == events'[Len(events')]
                 id == Cur(avail).id
             IN  /\ events' = Append(events, e)
                 /\ avail.pc = "write"
                 /\ e.price = avail.info.price
                 /\ history' = Append(history,
                                      HistoryRow(id, "available", e.price,
                                                 DateTimeOf(clock')))
                 /\ Live(avail) =>
                       /\ products'[id].last_status = "available"
                       /\ products'[id].last_price = e.price
                       /\ products'[id].last_checked = IsoFormat(DateTimeOf(clock'))]_vars

\* C11 witness: the one notification failed and the write it followed is in
\* the store
C11_Witness ==
    /\ Len(events) = 1 /\ ~events[1].sent
    /\ Len(history) = 1 /\ history[1].status = "available"
    /\ history[1].product_id \in DOMAIN products
    /\ products[history[1].product_id].last_status = "available"

(* C12 *)

\* cadence c, which becomes d, leaves the fetch of a product without a record:
\* the store and the events stay as they are and the product is not looked at
\* again in this cycle
SkippedAtFetch(c, d) ==
    (c.pc = "fetch" /\ d # c /\ d.pc # "write") =>
        /\ products' = products
        /\ history' = history
        /\ events' = events
        /\ \A i \in 1..Len(d.todo) : d.todo[i].id # Cur(c).id

\* C12: a product whose fetch failed, or whose URL no scraper handles, is
\* skipped for the cycle: neither cadence ever writes for a URL without a
\* scraper or without an extracted record, and the step that leaves the fetch
\* without a record changes no product, no history and no events.
C12_FailedFetchSkipped ==
    [][/\ \A c \in {avail, price} :
             c.pc = "write" => /\ GetScraper(Cur(c).url) # NULL
                               /\ c.info # NoInfo
       /\ SkippedAtFetch(avail, avail')
       /\ SkippedAtFetch(price, price')]_vars

\* C12 witness: check_all_products has gone past the product with a URL no
\* scraper handles, which is still as it was added, and is at the next product
C12_Witness ==
    /\ avail.pc = "fetch" /\ Cur(avail).id = 2
    /\ 1 \in DOMAIN products
    /\ products[1].url = OtherUrl
    /\ products[1] = NewRow(1, OtherUrl, products[1].name)
    /\ HistoryOf(history, 1) = <<>>

(* C13 *)

\* C13: no exception leaves check_all_products or check_all_prices: a failure
\* while one product is processed never ends the cycle.
C13_NoExceptionEscapes == avail.pc # "raised" /\ price.pc # "raised"

(* C14 *)

\* the status fields of a product row, as a history row would carry them
StatusFields(row) ==
    [product_id |-> row.id, status |-> row.last_status, price |-> row.last_price,
     checked_at |-> row.last_checked]

\* The pairing for the products that are in the store: in every state a
\* product that was never checked has no history entry and a checked
\* product's newest entry carries its status, price and timestamp; a step
\* that changes the status fields of a product appends exactly one entry with
\* the same fields; a step that adds an entry for a product in the store
\* changes that product's fields to the entry's.  This holds when
\* update_product_status is interrupted at either statement.
PairedForStoredProducts ==
    [][/\ \A id \in DOMAIN products :
             LET h == HistoryOf(history, id)
             IN  IF products[id].last_status = NULL
                 THEN h = <<>> /\ products[id].last_checked = NoTime
                 ELSE h # <<>> /\ h[Len(h)] = StatusFields(products[id])
       /\ \A id \in DOMAIN products \cap DOMAIN products' :
             StatusFields(products'[id]) # StatusFields(products[id])
                => history' = Append(history, StatusFields(products'[id]))
       /\ Len(history') > Len(history) =>
             LET r == history'[Len(history')]
             IN  /\ history' = Append(history, r)
                 /\ r.product_id \in DOMAIN products =>
                       StatusFields(products'[r.product_id]) = r]_vars

\* one status write was committed and a later one was interrupted; the store
\* shows the first one, product row and history entry
InterruptedWrite ==
    /\ avail.pc = "raised"
    /\ Len(history) = 1
    /\ history[1].product_id \in DOMAIN products
    /\ StatusFields(products[history[1].product_id]) = history[1]

\* C14: the status write of a product and its history entry are one unit: a
\* step changes the status fields of a product if and only if it appends
\* exactly one history entry with the same status, price and timestamp, so
\* that in every state both are visible or neither is.
C14_StatusWritePaired ==
    [][/\ \A id \in DOMAIN products \cap DOMAIN products' :
             StatusFields(products'[id]) # StatusFields(products[id])
                => history' = Append(history, StatusFields(products'[id]))
       /\ Len(history') > Len(history) =>
             LET r == history'[Len(history')]
             IN  /\ history' = Append(history, r)
                 /\ r.product_id \in DOMAIN products'
                 /\ StatusFields(products'[r.product_id]) = r]_vars

(* C15 *)

\* datetime a is later than datetime b
Later(a, b) == a.sec > b.sec \/ (a.sec = b.sec /\ a.usec > b.usec)

\* C15: right after a status write of a cadence, get_product_history of that
\* product with limit 1 returns exactly the entry just recorded, with the
\* status, price and timestamp written; and whenever the history table has
\* changed (it starts empty), for every product id that has entries, for one
\* that has none, and for the limits 0, 1 and MaxLimit, get_product_history
\* returns entries of that product only, as many as the product has but no
\* more than the limit, the most recent first.
C15_HistoryRoundTrip ==
    [][/\ Len(history') > Len(history) =>
             \E c \in {avail, price} :
                /\ c.pc = "write"
                /\ GetProductHistory(history', Cur(c).id, 1) =
                      <<[product_id |-> Cur(c).id, status |-> StatusOf(c.info),
                         price |-> c.info.price,
                         checked_at |-> DateTimeOf(clock')]>>
       /\ history' # history =>
          \A id \in {history'[k].product_id : k \in 1..Len(history')} \cup {nextId},
             n \in {0, 1, MaxLimit} :
             LET g == GetProductHistory(history', id, n)
                 h == HistoryOf(history', id)
             IN  /\ Len(g) = IF n < Len(h) THEN n ELSE Len(h)
                 /\ \A i \in 1..Len(g) :
                       /\ g[i].product_id = id
                       /\ \E k \in 1..Len(h) :
                             /\ g[i].status = h[k].status
                             /\ g[i].price = h[k].price
                             /\ IsoFormat(g[i].checked_at) = h[k].checked_at
                 /\ \A i, j \in 1..Len(g) :
                       i < j => Later(g[i].checked_at, g[j].checked_at)]_vars

\* C15 witness: a product with two history entries, of which the one with
\* limit 1 is the one recorded last
C15_Witness ==
    \E id \in DOMAIN products :
        /\ Len(HistoryOf(history, id)) = 2
        /\ GetProductHistory(history, id, 1)[1].checked_at = DateTimeOf(clock)
        /\ GetProductHistory(history, id, 1)[1].status = products[id].last_status

(* C17 *)

\* C17: with the two cadences running at the same time, the value a cadence
\* compares against is the one in the store right before its own write: when
\* check_all_products is at the status write of a product, the previous status
\* it read is the product's persisted last_status, and when check_all_prices
\* is at the status write of a product, the old price it read is the
\* product's persisted last_price.
C17_ConsistentReadModifyWrite ==
    /\ (avail.pc = "write" /\ Live(avail))
          => Cur(avail).last_status = products[Cur(avail).id].last_status
    /\ (price.pc = "write" /\ Live(price))
          => Cur(price).last_price = products[Cur(price).id].last_price

(* C18 *)

\* a product with all optional fields empty
EmptyProduct(row) ==
    /\ row.last_status = NULL
    /\ row.last_price = NoPrice
    /\ row.last_checked = NoTime

\* add_product on the store [tbl, next]: no two products share a URL;
\* add_product of a URL that is there, with any name, returns the product
\* that is there and changes nothing; add_product of a new URL adds exactly
\* one product, with the given name and the optional fields empty, and a
\* second add_product of that URL changes nothing more
UpsertAt(tbl, next) ==
    /\ \A i, j \in DOMAIN tbl : tbl[i].url = tbl[j].url => i = j
    /\ \A url \in Urls \cup {OtherUrl}, name \in UserNames \cup {NULL} :
          LET db == [tbl |-> tbl, next |-> next]
              after == AddProductTbl(db, url, name)
              there == {id \in DOMAIN tbl : tbl[id].url = url}
          IN  IF there # {}
              THEN /\ after = db
                   /\ \E id \in there : AddProductReturn(db, url, name) = tbl[id]
              ELSE /\ DOMAIN after.tbl = DOMAIN tbl \cup {next}
                   /\ \A id \in DOMAIN tbl : after.tbl[id] = tbl[id]
                   /\ after.tbl[next].url = url
                   /\ after.tbl[next].name = name
                   /\ EmptyProduct(after.tbl[next])
                   /\ AddProductReturn(db, url, name) = after.tbl[next]
                   /\ \A other \in UserNames \cup {NULL} :
                         AddProductTbl(after, url, other) = after

\* C18: add_product is an idempotent upsert keyed by URL: UpsertAt holds of
\* the empty store and of the store after every step that changes it, and
\* every row that appears in the store is a new product with its optional
\* fields empty whose URL was not there before.
C18_AddProductUpsert ==
    [][/\ products = <<>> => UpsertAt(products, nextId)
       /\ products' # products => UpsertAt(products', nextId')
       /\ \A id \in DOMAIN products' \ DOMAIN products :
             /\ EmptyProduct(products'[id])
             /\ ~UrlTaken(products, products'[id].url)
             /\ DOMAIN products' = DOMAIN products \cup {id}]_vars

\* C18 witness: two products, the first of them checked since it was added,
\* and add_product was called again for its URL at the start of a cycle
C18_Witness ==
    /\ DOMAIN products = {1, 2}
    /\ products[1].url = UiUrl
    /\ products[1].last_status # NULL
    /\ avail.pc = "fetch" /\ Len(avail.todo) = 2

(* C28 *)

\* C28: history keeps its references under deletion: after every step, also
\* one in which a product is deleted while a cycle that has listed it is still
\* running, every check_history entry refers to a product that is in the
\* store; and the status write of a cadence for a product that has been
\* deleted leaves products and history as they were.
C28_HistoryRefersToProduct ==
    [][/\ \A i \in 1..Len(history') : history'[i].product_id \in DOMAIN products'
       /\ \A c \in {avail, price} :
             (/\ c.pc = "write" /\ ~Live(c)
              /\ (IF c = avail THEN avail' # avail ELSE price' # price)
              /\ clock' # clock)
             => products' = products /\ history' = history]_vars

(* C30 *)

\* the sequence numbers of the stored records increase strictly
SeqIncreasing(records) ==
    \A i, j \in 1..Len(records) : i < j => records[i].seq < records[j].seq

\* What the lock gives: after every step the buffer holds at most maxlen
\* records, their sequence numbers are distinct and increasing and none is
\* above the counter, and get_since(s) returns exactly the stored records
\* with a sequence number above s, in the order of the buffer.
LogBufferOrdered ==
    [][/\ Len(log'.records) <= maxlen
       /\ SeqIncreasing(log'.records)
       /\ \A i \in 1..Len(log'.records) : log'.records[i].seq <= log'.seq
       /\ \A t \in Threads :
             (log.threads[t].pc = "since_lock" /\ log'.threads[t].pc = "since_done")
             => LET got == log'.threads[t].got
                    s == log.threads[t].since
                IN  /\ SeqIncreasing(got)
                    /\ \A r \in [seq : 0..MaxEmits] :
                          (\E i \in 1..Len(got) : got[i] = r)
                          <=> (r.seq > s /\ \E i \in 1..Len(log.records) :
                                               log.records[i] = r)]_vars

\* C30: MemoryLogHandler is a bounded ring buffer with increasing sequence
\* numbers under every interleaving of emit and get_since calls: the buffer
\* never holds more than maxlen records, the sequence numbers of the stored
\* records strictly increase and, when no emit is inside the lock, end at the
\* number of emit calls finished, and get_since(s) returns exactly the stored
\* records with a sequence number above s, in increasing order.
C30_RingBuffer ==
    [][/\ Len(log'.records) <= maxlen
       /\ SeqIncreasing(log'.records)
       /\ (log'.lock = 0 /\ log'.records # <<>>)
             => log'.records[Len(log'.records)].seq = log'.emits
       /\ \A t \in Threads :
             (log.threads[t].pc = "since_lock" /\ log'.threads[t].pc = "since_done")
             => LET got == log'.threads[t].got
                    s == log.threads[t].since
                IN  /\ SeqIncreasing(got)
                    /\ \A r \in [seq : 0..MaxEmits] :
                          (\E i \in 1..Len(got) : got[i] = r)
                          <=> (r.seq > s /\ \E i \in 1..Len(log.records) :
                                               log.records[i] = r)]_vars

(* C27 *)

\* in the state s, a job is paused exactly when its persisted interval is 0,
\* and runs with the interval N when its persisted interval is N > 0
JobsFollowSettings(s) ==
    \A j \in JobIds :
        LET saved == s.settings[SettingKey(j)]
        IN  /\ s.jobs[j].exists
            /\ s.jobs[j].paused <=> saved = Str(0)
            /\ (saved # NoSetting /\ saved # Str(0))
                  => /\ ~s.jobs[j].paused
                     /\ Str(s.jobs[j].interval) = saved

\* C27: after the start of the process and after every update_settings
\* request, each of the two jobs is paused if and only if its persisted
\* interval is 0 and runs with interval N when its persisted interval is
\* N > 0; and a request that is rejected (an error is flashed) leaves both
\* persisted settings and both jobs as they were.
C27_JobsFollowSettings ==
    [][sched'.pc = "running" =>
          /\ JobsFollowSettings(sched')
          /\ (sched.pc = "running" /\ \E i \in 1..Len(sched'.flash) :
                                         sched'.flash[i] = "error")
                => /\ sched'.settings = sched.settings
                   /\ sched'.jobs = sched.jobs]_vars

\* the jobs follow the settings in every state of the running process
JobsFollowSettingsAlways == sched.pc = "running" => JobsFollowSettings(sched)

(* C25 *)

RECURSIVE Traversal(_, _, _)
\* the values of obj in the order of the traversal, each with its depth and
\* its place in its list, as far as the bounds go: nothing deeper than
\* DepthLimit, of a list only the first ListScan items, and nothing inside a
\* dict that has the required keys
Traversal(obj, depth, pos) ==
    IF depth > DepthLimit THEN <<>>
    ELSE LET here == <<[node |-> obj, depth |-> depth, pos |-> pos]>>
             n == Len(obj.kids)
             RECURSIVE Below(_)
             Below(i) ==
                 IF i > n \/ (obj.kind = "list" /\ i > ListScan) THEN <<>>
                 ELSE Traversal(obj.kids[i], depth + 1,
                                IF obj.kind = "list" THEN i ELSE 0) \o Below(i + 1)
         IN  IF obj.kind = "dict" /\ obj.keys THEN here ELSE here \o Below(1)

\* the first value of the traversal that is a dict with the required keys
FirstMatch(obj) ==
    LET t == Traversal(obj, 0, 0)
        hits == {i \in 1..Len(t) : t[i].node.kind = "dict" /\ t[i].node.keys}
    IN  IF hits = {} THEN NotFound
        ELSE t[CHOOSE i \in hits : \A j \in hits : i <= j].node

\* C25: every call of _deep_find comes to an end; no call looks at a value
\* deeper than the depth limit or at a list item after the fifth; and its
\* result is None or the first dict in traversal order, within those bounds,
\* that has all required keys.
C25_DeepFindBounded ==
    /\ [](\A i \in 1..Len(find.inspected) :
             /\ find.inspected[i].depth <= DepthLimit
             /\ find.inspected[i].pos <= ListScan)
    /\ [](find.pc = "done" => find.result = FirstMatch(find.input))
    /\ <>(find.pc = "done")

\* C25 witness: a list of more than five items whose sixth has the required
\* keys was searched: five items were looked at and nothing was returned
C25_Witness ==
    /\ find.pc = "done"
    /\ find.result = NotFound
    /\ find.input.kind = "list"
    /\ Len(find.input.kids) > ListScan
    /\ find.input.kids[ListScan + 1].keys
    /\ Len(find.inspected) = ListScan + 1

(* C23 *)

\* the tokens that mean in stock
InStockTokens ==
    {<<"i", "n", "s", "t", "o", "c", "k">>,
     <<"i", "n", "_", "s", "t", "o", "c", "k">>,
     <<"i", "n", "s", "t", "o", "r", "e", "o", "n", "l", "y">>,
     <<"l", "i", "m", "i", "t", "e", "d", "a", "v", "a", "i", "l", "a", "b", "i", "l", "i", "t", "y">>,
     <<"o", "n", "l", "i", "n", "e", "o", "n", "l", "y">>,
     <<"p", "r", "e", "s", "a", "l", "e">>}

\* the text, compared without regard to case, has one of the tokens in it
HasInStockToken(text) ==
    \E token \in InStockTokens, i \in 1..Len(text) :
        /\ i + Len(token) - 1 <= Len(text)
        /\ \A k \in 1..Len(token) : LowerChar(text[i + k - 1]) = token[k]

\* C23: a record parsed from a JSON-LD product without variants is available
\* if and only if the availability text of its offers, compared without regard
\* to case, contains one of the tokens instock, in_stock, instoreonly,
\* limitedavailability, onlineonly, presale; "OutOfStock" gives false and
\* "LimitedAvailability" gives true; and the _is_available functions of the
\* three scrapers give the same answer on the text.
C23_AvailabilityNormalized ==
    (call.pc = "returned" /\ call.tier = "json_ld" /\ call.data.hasVariant = <<>>)
    => LET text == call.data.offers.availability
       IN  /\ call.result.available <=> HasInStockToken(text)
           /\ \A scraper \in ScraperClasses :
                 IsAvailable(scraper, text) <=> HasInStockToken(text)
           /\ text = OutOfStockText => ~call.result.available
           /\ text = LimitedAvailabilityText => call.result.available

\* C23 witness: "https://schema.org/LimitedAvailability" was parsed as available
C23_Witness ==
    /\ call.pc = "returned" /\ call.tier = "json_ld"
    /\ call.data.offers.availability = SchemaOrgText \o LimitedAvailabilityText
    /\ call.result.available

(* C24 *)

\* C24: the price of every record a scrape returns, from whichever tier, is
\* empty or not negative.
C24_PriceNotNegative ==
    (call.pc = "returned" /\ call.result # NoInfo)
    => \/ call.result.price = NoPrice
       \/ call.result.price[1] >= 0

(* C26 *)

\* C26: a record of the HTML fallback of any scraper is unavailable whenever
\* the page has an "out of stock" / "unavailable" text in it, whatever
\* add-to-cart control or in-stock text it has as well.
C26_NegativeTextOverrides ==
    (call.pc = "returned" /\ call.tier = "html" /\ call.page.html.negative)
    => ~call.result.available

(* C22 *)

\* C22: the record the UI store scraper parses from a JSON-LD product with
\* variants and without offers of its own has the price, the currency and the
\* availability of the first variant that is in stock, or of the first variant
\* when none is in stock (a variant without offers has no price, the default
\* currency and is not in stock).
C22_FirstInStockVariant ==
    (/\ call.pc = "returned" /\ call.tier = "json_ld" /\ call.scraper = "ui_store"
     /\ call.data.offers.kind = "absent" /\ call.data.hasVariant # <<>>)
    => LET variants == call.data.hasVariant
           inStock(i) == HasInStockToken(variants[i].offers.availability)
           chosen == IF \E i \in 1..Len(variants) : inStock(i)
                     THEN variants[CHOOSE i \in 1..Len(variants) :
                                      /\ inStock(i)
                                      /\ \A j \in 1..(i - 1) : ~inStock(j)].offers
                     ELSE variants[1].offers
       IN  /\ call.result.price = ParseFloat(chosen.price)
           /\ call.result.currency = IF chosen.priceCurrency = "" THEN DefaultCurrency
                                     ELSE chosen.priceCurrency
           /\ call.result.available <=> HasInStockToken(chosen.availability)

\* C22 witness: of two variants the first is out of stock and the second, at
\* another price and in another currency, in stock, and the record is the
\* second's
C22_Witness ==
    /\ call.pc = "returned" /\ call.tier = "json_ld" /\ call.scraper = "ui_store"
    /\ call.data.offers.kind = "absent"
    /\ Len(call.data.hasVariant) = 2
    /\ call.data.hasVariant[1].offers = Offer("1", OutOfStockText, "")
    /\ call.data.hasVariant[2].offers = Offer("2", InStockText, "EUR")
    /\ call.result.price = Some(2)
    /\ call.result.currency = "EUR"
    /\ call.result.available

(* C21 *)

\* what each tier of the scraper makes of the page, in the order of priority:
\* a record, or nothing
TierRecords(scraper, page, url) ==
    LET item == ExtractJsonLd(scraper, page.ld).value
        json_ld == IF item = NoItem THEN NoInfo
                   ELSE ParseJsonLd(scraper, item, url).value
        html == ParseHtml(scraper, page.html, url).value
    IN  IF scraper = "dell"
        THEN <<json_ld, TryNextData(page.next, url).value,
               TryInlineScripts(page.scripts, url).value, html>>
        ELSE <<json_ld, html>>

\* C21: a scrape that ends without an exception returns the record of the
\* first tier, in the order structured data, app-state blob, inline scripts,
\* DOM/meta fallback, that gives a name other than the sentinel; a tier that
\* gives only the sentinel name does not end the scrape, and the sentinel
\* name is returned only when no tier gives another.
C21_FirstNamedTier ==
    (call.pc = "returned" /\ call.exc = NULL /\ call.result # NoInfo)
    => LET tiers == TierRecords(call.scraper, call.page, call.url)
           named == {i \in 1..Len(tiers) :
                        tiers[i] # NoInfo /\ tiers[i].name # SentinelName}
       IN  IF named = {} THEN call.result.name = SentinelName
           ELSE call.result = tiers[CHOOSE i \in named : \A j \in named : i <= j]

(* C29 *)

====
